---- MODULE Spec2Model ----
(***************************************************************************)
(* Greedy string-art chord selection (src/main.rs).                        *)
(*                                                                         *)
(* Numbers.  The program computes in f32.  The model computes exactly, in  *)
(* fixed point: a darkness value is an integer number of hundredths        *)
(* (0.05 is 5, 0.6 is 60, 1.0 is 100), a closeness (sum of squared         *)
(* differences) is an integer number of ten-thousandths (0.5 is 5000, the  *)
(* initial old_closeness 100000.0 is 10^9), a distance is a number of      *)
(* hundredths of a pixel, rounded down.  The non-finite f32 values the     *)
(* program produces (a slope of +-inf or NaN, a distance of NaN) are       *)
(* modelled by the value NaN, with the IEEE/Rust rules the code relies on. *)
(*                                                                         *)
(* Size.  SIZE and NUM_SCREWS are the program's constants scaled down      *)
(* (300 -> 6 pixels, 271 -> 16 screws) so that a run can be enumerated;    *)
(* the starting screw 100 is scaled with them.  The minimum separation     *)
(* NUM_SCREWS / 15 is 1, so the admissibility test still rejects and       *)
(* still accepts pairs.  DELTA_DIFF_THRESHOLD bounds the change of the     *)
(* closeness that one line may cause, and a line changes at most about     *)
(* SIZE pixels by the ceiling 0.05; it is scaled with SIZE (0.5 -> 0.01)   *)
(* so that, as at full size, a line across a white region exceeds it and   *)
(* the scoring loops leave early for such lines.                           *)
(***************************************************************************)
EXTENDS Integers, Sequences, FiniteSets, TLC

\* ------------------------------------------------------------ constants

\* const SIZE: u32 = 300 (scaled)
SIZE == 6
\* const NUM_SCREWS: usize = 271 (scaled)
NUM_SCREWS == 16
\* const DELTA_DIFF_THRESHOLD: f32 = -0.5 (scaled: 0.5 * 6 / 300 = 0.01), in
\* ten-thousandths
DELTA_DIFF_THRESHOLD == -100
\* let mut old_closeness: f32 = 100000.0, in ten-thousandths
INITIAL_CLOSENESS == 1000000000
\* let mut i = 100 (scaled: 100 * 16 / 271, rounded)
INITIAL_SCREW == 6
\* const CROP_TO_CIRCLE: bool = true
CROP_TO_CIRCLE == TRUE
\* point_profile: the 0.6 and the 0.05 of (0.6 - |d|).max(0.0).min(0.05)
PROFILE_REACH == 60
PROFILE_CEILING == 5
\* pixel as f32 / 255.0
PIXEL_MAX == 255

\* --------------------------------------------------------------- bounds

\* The input images have pixel values (255 * l) \div MaxLevel, l \in 0 .. MaxLevel.
MaxLevel == 2
\* The count of accepted chords saturates here (the program keeps no count).
MaxLines == 3

\* -------------------------------------------------------------- helpers

\* An f32 is modelled as << v >> when finite and as NaN when it is not.
NaN == << >>
Fin(v) == << v >>

Abs(a) == IF a < 0 THEN -a ELSE a
Min(a, b) == IF a < b THEN a ELSE b
Max(a, b) == IF a < b THEN b ELSE a

Coords == 0 .. (SIZE - 1)
Screws == 0 .. (NUM_SCREWS - 1)

\* A grid [[f32; SIZE]; SIZE] is a function on Pixels: the pixel grid[y][x]
\* is at index x * SIZE + y + 1, the order in which `for x { for y {` visits.
Pixels == 1 .. (SIZE * SIZE)
Idx(px, py) == px * SIZE + py + 1
PX(k) == (k - 1) \div SIZE
PY(k) == (k - 1) % SIZE

\* The same sequence with its elements evaluated once: TLC evaluates the body
\* of a function constructor anew at every application.
Stored(s) == << >> \o s

\* Op(arg), with arg evaluated once however often Op refers to it.
Once(arg, Op(_)) == CHOOSE res \in { Op(val) : val \in {arg} } : TRUE
\* Likewise for a function that is no sequence.
StoredFcn(f) == f @@ << >>

\* [[0.0; SIZE as usize]; SIZE as usize]
ZeroGrid == [k \in Pixels |-> 0]

\* One step of the digit-by-digit square root: r with bit b added when the
\* square still fits.
SqrtBit(r, b, v) == IF (r + b) * (r + b) <= v THEN r + b ELSE r

\* The largest r < 2^14 with r * r <= v.
ISqrt(v) ==
    SqrtBit(SqrtBit(SqrtBit(SqrtBit(SqrtBit(SqrtBit(SqrtBit(
    SqrtBit(SqrtBit(SqrtBit(SqrtBit(SqrtBit(SqrtBit(SqrtBit(0,
        8192, v), 4096, v), 2048, v), 1024, v), 512, v), 256, v), 128, v),
        64, v), 32, v), 16, v), 8, v), 4, v), 2, v), 1, v)

\* ------------------------------------------------------- screw locations

\* cos(i * 2 * PI / NUM_SCREWS) in thousandths, i = 0 .. NUM_SCREWS - 1
COS_TABLE ==
    << 1000, 924, 707, 383, 0, -383, -707, -924,
       -1000, -924, -707, -383, 0, 383, 707, 924 >>

Cos(n) == COS_TABLE[(n % NUM_SCREWS) + 1]
\* sin(a) = cos(a - PI / 2)
Sin(n) == Cos(n + NUM_SCREWS - NUM_SCREWS \div 4)

\* f32::round of n / 1000 for n >= 0 (half away from zero)
RoundMilli(n) == (n + 500) \div 1000

\* (SIZE / 2 + angle.cos() * SIZE / 2).round(), likewise with sin
\* The location of screw i is at index i + 1.
generate_screw_locations ==
    Stored([n \in 1 .. NUM_SCREWS |->
        << RoundMilli(500 * SIZE + (Cos(n - 1) * SIZE) \div 2),
           RoundMilli(500 * SIZE + (Sin(n - 1) * SIZE) \div 2) >>])

screw_locations == generate_screw_locations

\* ------------------------------------------------------ chord rasterizer

\* (0.6 - distance.abs()).max(0.0).min(0.05); f32::max returns the other
\* argument when one is NaN, so a NaN distance gives 0.0.
point_profile(distance) ==
    IF distance = NaN THEN 0
    ELSE Min(Max(PROFILE_REACH - Abs(distance[1]), 0), PROFILE_CEILING)

\* let m = (y2 - y1) / (x2 - x1): the pair << y2 - y1, x2 - x1 >> when the
\* quotient is finite, NaN when it is not (+-inf when x2 = x1, NaN when also
\* y2 = y1).
Slope(x1, y1, x2, y2) ==
    IF x2 - x1 = 0 THEN NaN ELSE << y2 - y1, x2 - x1 >>

\* (m * x - y + c).abs() / (m * m + 1.0).sqrt() with c = y1 - m * x1.
\* With m = +-inf: c is -+inf (NaN when x1 = 0), m * x is +-inf (NaN when
\* x = 0), so m * x - y + c is inf - inf or NaN: the distance is NaN for
\* every pixel.  With m = dy / dx finite the quotient is
\* |dy * x - dx * y + dx * y1 - dy * x1| / sqrt(dy^2 + dx^2).
Distance(m, x1, y1, px, py) ==
    IF m = NaN THEN NaN
    ELSE LET dy  == m[1]
             dx  == m[2]
             num == Abs(dy * px - dx * py + dx * y1 - dy * x1)
         IN  Fin(ISqrt((10000 * num * num) \div (dy * dy + dx * dx)))

\* (x - SIZE / 2)^2 + (y - SIZE / 2)^2 > (SIZE / 2)^2, all times 4
OutsideCircle(px, py) ==
    (2 * px - SIZE) * (2 * px - SIZE) + (2 * py - SIZE) * (2 * py - SIZE) > SIZE * SIZE

generate_line_mask(a, b, screws) ==
    LET x1 == screws[a + 1][1]
        y1 == screws[a + 1][2]
        x2 == screws[b + 1][1]
        y2 == screws[b + 1][2]
        m  == Slope(x1, y1, x2, y2)
    IN  Stored([k \in Pixels |->
            IF OutsideCircle(PX(k), PY(k)) /\ CROP_TO_CIRCLE THEN 0
            ELSE point_profile(Distance(m, x1, y1, PX(k), PY(k)))])

\* generate_line_mask is pure: the masks of all pairs, computed once.  The
\* mask of (a, b) is LineMasks[a + 1][b + 1].
LineMasks ==
    Stored([a \in 1 .. NUM_SCREWS |->
        Stored([b \in 1 .. NUM_SCREWS |-> generate_line_mask(a - 1, b - 1, screw_locations)])])

LineMask(a, b) == LineMasks[a + 1][b + 1]

\* ------------------------------------------------------- target preparer

\* The decoded, resized, grayscale input.jpg: pixel values 0..255.
Level(l) == (PIXEL_MAX * l) \div MaxLevel

Shapes == {"uniform", "dot", "left", "diagonal", "column"}

InShape(shape, px, py) ==
    CASE shape = "uniform"  -> TRUE
      [] shape = "dot"      -> px = SIZE \div 2 /\ py = SIZE \div 2
      [] shape = "left"     -> px < SIZE \div 2
      [] shape = "diagonal" -> px = py
      [] shape = "column"   -> px = SIZE \div 2

Picture(shape, v) ==
    [k \in Pixels |-> IF InShape(shape, PX(k), PY(k)) THEN v ELSE 0]

InputImages == { Picture(shape, Level(l)) : shape \in Shapes, l \in 0 .. MaxLevel }

\* A new_luma8 image (all 0) with the pixels of the inscribed circle copied.
crop_to_circle(img) ==
    LET radius == Min(SIZE, SIZE) \div 2
    IN  [k \in Pixels |->
            LET dx == PX(k) - radius
                dy == PY(k) - radius
            IN  IF PX(k) < radius * 2 /\ PY(k) < radius * 2
                   /\ dx * dx + dy * dy <= radius * radius
                THEN img[k] ELSE 0]

\* grid[y][x] = pixel as f32 / 255.0, in hundredths
TargetGrid(input) ==
    LET img == IF CROP_TO_CIRCLE THEN crop_to_circle(input) ELSE input
    IN  [k \in Pixels |-> (img[k] * 100) \div PIXEL_MAX]

\* ----------------------------------------------------------------- state

VARIABLES
    slow_better_mode,   \* SLOW_BETTER_MODE of this build
    ideal_image,        \* the target grid
    image,              \* the working grid
    i,                  \* the current screw (main's outer i)
    old_closeness,      \* the closeness of the last accepted line
    permutations,       \* the sorted candidate list of the last search step
    x,                  \* the index the fallback scan of that step ended at
    lines,              \* accepted lines so far, saturating at MaxLines
    window_open,        \* window.is_open()
    update_ok,          \* the last update_with_buffer returned Ok
    save_image,         \* the raster written to output.png, << >> before
    pc                  \* "loop", "save", "maintain", "exit", "panicked"

vars == << slow_better_mode, ideal_image, image, i, old_closeness, permutations,
           x, lines, window_open, update_ok, save_image, pc >>

\* ---------------------------------------------------------------- scorer

Square(a) == a * a

RECURSIVE ColumnFrom(_, _, _, _, _, _, _)

\* if old_closeness - closeness < DELTA_DIFF_THRESHOLD { skip = true; break }
ColumnNext(px, py, c, ideal, img, mask, old) ==
    IF old - c < DELTA_DIFF_THRESHOLD THEN << TRUE, c >>
    ELSE ColumnFrom(px, py + 1, c, ideal, img, mask, old)

\* The inner loop, for y in py..SIZE:
\* closeness += (ideal - image - mask)^2, leaving with skip = true as soon
\* as old - closeness < DELTA_DIFF_THRESHOLD.  << skip, closeness >>.
ColumnFrom(px, py, closeness, ideal, img, mask, old) ==
    IF py >= SIZE THEN << FALSE, closeness >>
    ELSE ColumnNext(px, py,
                    closeness + Square(ideal[Idx(px, py)] - img[Idx(px, py)] - mask[Idx(px, py)]),
                    ideal, img, mask, old)

RECURSIVE ScoreFrom(_, _, _, _, _, _)

\* The outer loop, for x in px..SIZE: the inner loop, then
\* if skip { break }.  << skip, closeness >>.
ScoreFrom(px, closeness, ideal, img, mask, old) ==
    IF px >= SIZE THEN << FALSE, closeness >>
    ELSE Once(ColumnFrom(px, 0, closeness, ideal, img, mask, old),
              LAMBDA r : IF r[1] THEN r
                         ELSE ScoreFrom(px + 1, r[2], ideal, img, mask, old))

\* The scoring loops with the mask left out of the sum.
ScoreIgnoringMask(ideal, img, mask, old) ==
    Once(<< ideal, img, old >>,
         LAMBDA g : ScoreFrom(0, 0, g[1], g[2], ZeroGrid, g[3]))

\* let mut closeness = 0.0; let mut skip = false; and the two loops
Score(ideal, img, mask, old) ==
    Once(<< ideal, img, mask, old >>,
         LAMBDA g : ScoreFrom(0, 0, g[1], g[2], g[3], g[4]))

\* ---------------------------------------------------------- selector loop

\* (j as i32 - i as i32).abs() > NUM_SCREWS as i32 / 15
Separated(a, b) == Abs(b - a) > NUM_SCREWS \div 15

\* for i in 0..NUM_SCREWS { for j in 0..NUM_SCREWS { if ... } }: the pairs
\* that pass the test, in the order the loops visit them
AllPairs ==
    SelectSeq(Stored([k \in 1 .. (NUM_SCREWS * NUM_SCREWS) |->
                  << (k - 1) \div NUM_SCREWS, (k - 1) % NUM_SCREWS >>]),
              LAMBDA p : Separated(p[1], p[2]))

\* for i in i..i+1 { for j in 0..NUM_SCREWS { if ... } }, for each i
PairsFrom ==
    Stored([c \in 1 .. NUM_SCREWS |->
        SelectSeq(Stored([k \in 1 .. NUM_SCREWS |-> << c - 1, k - 1 >>]),
                  LAMBDA p : Separated(p[1], p[2]))])

CandidatePairs(slow, cur) == IF slow THEN AllPairs ELSE PairsFrom[cur + 1]

\* A candidate that left the scoring loops with skip = true.
Skipped == -1

\* (i, j, closeness) of a candidate, closeness being Skipped when it was
ScoreOf(p, ideal, img, old) ==
    Once(Score(ideal, img, LineMask(p[1], p[2]), old),
         LAMBDA r : << p[1], p[2], IF r[1] THEN Skipped ELSE r[2] >>)

\* permutations before the sort: if !skip { permutations.push((i, j, closeness)) }
Scored(slow, cur, ideal, img, old) ==
    SelectSeq(Stored([k \in 1 .. Len(CandidatePairs(slow, cur)) |->
                  ScoreOf(CandidatePairs(slow, cur)[k], ideal, img, old)]),
              LAMBDA e : e[3] # Skipped)

\* The elements of s of each closeness, in the order they have in s.
Groups(s) ==
    StoredFcn([v \in { s[a][3] : a \in 1 .. Len(s) } |->
                  SelectSeq(s, LAMBDA e : e[3] = v)])

\* For each closeness, the number of elements of s of a smaller one.
Below(s) ==
    StoredFcn([v \in { s[a][3] : a \in 1 .. Len(s) } |->
                  Cardinality({a \in 1 .. Len(s) : s[a][3] < v})])

\* The closeness of the element at place p of the sorted list.
ValueAt(p, group, below) ==
    CHOOSE w \in DOMAIN group : below[w] < p /\ p <= below[w] + Len(group[w])

\* A stable sort of s by closeness.  The elements come in ascending
\* closeness, those of one closeness in the order they had: the element at
\* place p is the (p - below)-th of the group of its closeness.
StableSort(s) ==
    Once(<< Groups(s), Below(s) >>, LAMBDA t :
        Stored([p \in 1 .. Len(s) |->
            Once(ValueAt(p, t[1], t[2]), LAMBDA v : t[1][v][p - t[2][v]])]))

\* A sort that reverses the elements of equal closeness.
ReversingSort(s) ==
    Once(<< Groups(s), Below(s) >>, LAMBDA t :
        Stored([p \in 1 .. Len(s) |->
            Once(ValueAt(p, t[1], t[2]),
                 LAMBDA v : t[1][v][Len(t[1][v]) + 1 - (p - t[2][v])])]))

\* sort_unstable_by in place of sort_by
SortUnstable(s) == Once(s, LAMBDA t : ReversingSort(t))

\* permutations.sort_by(|a, b| a.2.partial_cmp(&b.2).unwrap())
SortByCloseness(s) == Once(s, LAMBDA t : StableSort(t))

OutOfBounds == -1

RECURSIVE FallbackScanInverted(_, _, _, _)
\* The scan with its condition inverted:
\* while old_closeness - closeness >= DELTA_DIFF_THRESHOLD
FallbackScanInverted(perms, old, at, closeness) ==
    IF old - closeness >= DELTA_DIFF_THRESHOLD
    THEN IF at + 1 >= Len(perms) THEN << OutOfBounds, closeness >>
         ELSE IF at + 1 >= Len(perms) - 1 THEN << at + 1, perms[at + 2][3] >>
         ELSE FallbackScanInverted(perms, old, at + 1, perms[at + 2][3])
    ELSE << at, closeness >>

RECURSIVE FallbackScan(_, _, _, _)
\* while old_closeness - closeness < DELTA_DIFF_THRESHOLD
\*   { x += 1; closeness = permutations[x].2; if x >= len - 1 { break } }
\* from index at (0-based) with the closeness read there.  << x, closeness >>,
\* with x = OutOfBounds when permutations[x] is indexed past the end.
FallbackScan(perms, old, at, closeness) ==
    IF old - closeness < DELTA_DIFF_THRESHOLD
    THEN IF at + 1 >= Len(perms) THEN << OutOfBounds, closeness >>
         ELSE IF at + 1 >= Len(perms) - 1 THEN << at + 1, perms[at + 2][3] >>
         ELSE FallbackScan(perms, old, at + 1, perms[at + 2][3])
    ELSE << at, closeness >>

\* i = permutations[x].0 in place of permutations[x].1
NextScrewFirstField(slow, cur, perm) == IF slow THEN cur ELSE perm[1]

\* The screw the next search step starts from: i = permutations[x].1 in
\* fast mode, unchanged in slow mode.
NextScrew(slow, cur, perm) == IF slow THEN cur ELSE perm[2]

\* The mask applied: generate_line_mask(permutations[x].1, permutations[x].0)
AppliedMask(perm) == LineMask(perm[2], perm[1])

\* image[y][x] += mask[y][x]
AddMask(img, mask) == [k \in Pixels |-> img[k] + mask[k]]

\* (v * 255.0).round() as u8 in place of (v * 255.0) as u8
ToU8Rounded(v) == Max(0, Min(PIXEL_MAX, (v * 255 + 50) \div 100))

\* (v * 255.0) as u8: truncated, saturating at 0 and 255
ToU8(v) == Max(0, Min(PIXEL_MAX, (v * 255) \div 100))

Init ==
    /\ slow_better_mode \in BOOLEAN
    /\ \E input \in InputImages : ideal_image = TargetGrid(input)
    /\ image = ZeroGrid
    /\ i = INITIAL_SCREW
    /\ old_closeness = INITIAL_CLOSENESS
    /\ permutations = << >>
    /\ x = 0
    /\ lines = 0
    /\ window_open = TRUE
    /\ update_ok = TRUE
    /\ save_image = << >>
    /\ pc = "loop"

\* One pass of `while window.is_open()`: score the candidates, sort, leave the
\* loop when none was kept, scan, panic unless x is 0, apply the line, update
\* the window (.unwrap(): a failed update panics).
SearchStep ==
    /\ pc = "loop"
    /\ window_open
    /\ permutations' =
           SortByCloseness(Scored(slow_better_mode, i, ideal_image, image, old_closeness))
    /\ IF Len(permutations') = 0
       THEN /\ pc' = "save"
            /\ UNCHANGED << image, i, old_closeness, x, lines, update_ok >>
       ELSE /\ x' = FallbackScan(permutations', old_closeness, 0, permutations'[1][3])[1]
            /\ IF x' # 0
               THEN /\ pc' = "panicked"
                    /\ UNCHANGED << image, i, old_closeness, lines, update_ok >>
               ELSE /\ old_closeness' =
                          FallbackScan(permutations', old_closeness, 0, permutations'[1][3])[2]
                    /\ i' = NextScrew(slow_better_mode, i, permutations'[1])
                    /\ image' = AddMask(image, AppliedMask(permutations'[1]))
                    /\ lines' = Min(lines + 1, MaxLines)
                    /\ \E ok \in BOOLEAN :
                          /\ update_ok' = ok
                          /\ pc' = IF ok THEN "loop" ELSE "panicked"
    /\ UNCHANGED << slow_better_mode, ideal_image, window_open, save_image >>

\* window.is_open() is false at the head of the loop
LeaveLoop ==
    /\ pc = "loop"
    /\ ~ window_open
    /\ pc' = "save"
    /\ UNCHANGED << slow_better_mode, ideal_image, image, i, old_closeness,
                    permutations, x, lines, window_open, update_ok, save_image >>

\* println!("done"); the working grid is written to output.png
SaveOutput ==
    /\ pc = "save"
    /\ save_image' = [k \in Pixels |-> ToU8(image[k])]
    /\ pc' = "maintain"
    /\ UNCHANGED << slow_better_mode, ideal_image, image, i, old_closeness,
                    permutations, x, lines, window_open, update_ok >>

\* The closing loop: update the window until it is closed, then return.
MaintainWindow ==
    /\ pc = "maintain"
    /\ IF window_open
       THEN \E ok \in BOOLEAN :
               /\ update_ok' = ok
               /\ pc' = IF ok THEN "maintain" ELSE "panicked"
       ELSE /\ pc' = "exit"
            /\ UNCHANGED update_ok
    /\ UNCHANGED << slow_better_mode, ideal_image, image, i, old_closeness,
                    permutations, x, lines, window_open, save_image >>

\* The user closes the preview window.
CloseWindow ==
    /\ window_open
    /\ pc \in {"loop", "save", "maintain"}
    /\ window_open' = FALSE
    /\ UNCHANGED << slow_better_mode, ideal_image, image, i, old_closeness,
                    permutations, x, lines, update_ok, save_image, pc >>

Next == SearchStep \/ LeaveLoop \/ SaveOutput \/ MaintainWindow \/ CloseWindow

Spec == Init /\ [][Next]_vars

\* The build of the source: const SLOW_BETTER_MODE: bool = false.
FastInit == Init /\ slow_better_mode = FALSE

\* The program keeps running: a step it can take is eventually taken.  The
\* user is under no obligation to close the window.
FairSpec ==
    /\ FastInit
    /\ [][Next]_vars
    /\ WF_vars(SearchStep) /\ WF_vars(LeaveLoop) /\ WF_vars(SaveOutput)
    /\ WF_vars(MaintainWindow)

\* ---------------------------------------------------------------- claims

\* MIN_SEP = floor(N / 15)
MIN_SEP == NUM_SCREWS \div 15

\* min(|a - b|, N - |a - b|)
CircularDistance(a, b) == Min(Abs(a - b), NUM_SCREWS - Abs(a - b))

RECURSIVE SumSquares(_, _, _, _)
\* The sum over the pixels k..SIZE^2 of (ideal - img - mask)^2.
SumSquares(k, ideal, img, mask) ==
    IF k > SIZE * SIZE THEN 0
    ELSE Square(ideal[k] - img[k] - mask[k]) + SumSquares(k + 1, ideal, img, mask)

\* The loss of a working grid: the sum of (target - working)^2.
Loss(ideal, img) == SumSquares(1, ideal, img, ZeroGrid)

\* The complete loss of a candidate: the sum of (target - working - mask)^2.
CompleteLoss(ideal, img, a, b) == SumSquares(1, ideal, img, LineMask(a, b))

\* The last search step accepted a line: permutations[0] of its list.
Accepted == permutations # << >> /\ x = 0
LastLine == permutations[1]

\* A step of the selector loop that accepts a line.
AcceptStep ==
    /\ pc = "loop" /\ window_open /\ window_open'
    /\ permutations' # << >> /\ x' = 0

AllWhite == \A k \in Pixels : ideal_image[k] = 0

SameX(a, b) == screw_locations[a + 1][1] = screw_locations[b + 1][1]

\* C1: no line the selector loop accepts joins screws whose circular
\* distance is MIN_SEP or less (code: the test is on |j - i|, which lets the
\* pairs that wrap around screw 0 through).
C1_Admissible ==
    Accepted => CircularDistance(LastLine[1], LastLine[2]) > MIN_SEP

\* C2: with an all-white target no line is ever accepted and the raster
\* written is all zero.
C2_AllWhiteAcceptsNothing ==
    AllWhite =>
        /\ lines = 0
        /\ save_image # << >> => \A k \in Pixels : save_image[k] = 0

\* C3: while the window stays open the selector loop is eventually left.
C3_LoopIsLeft == <>(pc # "loop" \/ ~ window_open)

\* C4: an accepted line raises the loss of the working grid by at most the
\* tolerance 0.5, the first accepted line included.
C4_MonotoneLoss ==
    [][AcceptStep =>
          Loss(ideal_image, image') <= Loss(ideal_image, image) - DELTA_DIFF_THRESHOLD]_vars

\* The working grid before the last accepted line.
PreviousImage == [k \in Pixels |-> image[k] - LineMask(LastLine[1], LastLine[2])[k]]

\* A line was accepted that raised the loss (within the tolerance), after
\* the first.
C4_Witness ==
    /\ Accepted /\ lines >= 2 /\ pc = "loop"
    /\ Loss(ideal_image, image) > Loss(ideal_image, PreviousImage)

\* C5: the mask of a line between two distinct screws of equal x has the
\* ceiling of the profile at every pixel of the disk on that vertical
\* (checked for the lines from the current screw).
C5_VerticalMask ==
    \A b \in Screws :
        (b # i /\ SameX(i, b)) =>
            \A k \in Pixels :
                (PX(k) = screw_locations[i + 1][1] /\ ~ OutsideCircle(PX(k), PY(k)))
                    => generate_line_mask(i, b, screw_locations)[k] = PROFILE_CEILING

\* C6: a failed window update ends the run as a closed window does: the
\* program does not abort.
C6_UpdateFailureIsShutdown == ~ update_ok => pc # "panicked"

\* C7 as stated: the raster holds round(min(v, 1) * 255).
C7_Rounded ==
    save_image # << >> =>
        \A k \in Pixels : save_image[k] = (Min(image[k], 100) * 255 + 50) \div 100

\* C7 amended: the raster holds v * 255 truncated, at most 255.
C7_Truncated ==
    save_image # << >> =>
        \A k \in Pixels : save_image[k] = Min(image[k] * 255, 25500) \div 100

\* A raster was written from a grid with a value above 1 and a value
\* strictly between 0 and 1.
C7_Witness ==
    /\ save_image # << >>
    /\ \E k \in Pixels : image[k] > 100
    /\ \E k \in Pixels : image[k] > 0 /\ image[k] < 100

\* (a, b) is (c, d) or comes before it lexicographically
LexLeq(a, b, c, d) == a < c \/ (a = c /\ b <= d)

\* C8: the accepted line has the least complete loss among the candidates
\* of its search step, is the lexicographically first of those of that loss,
\* and is the line added to the working grid.
C8_SelectionRule ==
    [][AcceptStep =>
          LET ci == permutations'[1][1]
              cj == permutations'[1][2]
          IN  /\ permutations'[1][3] = CompleteLoss(ideal_image, image, ci, cj)
              /\ image' = AddMask(image, generate_line_mask(ci, cj, screw_locations))
              /\ LET pairs == CandidatePairs(slow_better_mode, i)
                 IN  /\ \E n \in 1 .. Len(pairs) : pairs[n] = << ci, cj >>
                     /\ \A n \in 1 .. Len(pairs) :
                           \/ CompleteLoss(ideal_image, image, pairs[n][1], pairs[n][2])
                                 > permutations'[1][3]
                           \/ /\ CompleteLoss(ideal_image, image, pairs[n][1], pairs[n][2])
                                    = permutations'[1][3]
                              /\ LexLeq(ci, cj, pairs[n][1], pairs[n][2])]_vars

\* A line was accepted in a step that had another candidate of the same
\* complete loss and candidates of a larger one.
C8_Witness ==
    /\ Accepted /\ lines >= 2
    /\ \E n \in 2 .. Len(permutations) : permutations[n][3] = LastLine[3]
    /\ \E n \in 2 .. Len(permutations) : permutations[n][3] > LastLine[3]

\* C9: in fast mode every line kept by a search step starts at the current
\* screw, and the current screw becomes the other end of the accepted line.
C9_Continuity ==
    [][(AcceptStep /\ ~ slow_better_mode) =>
          /\ \A n \in 1 .. Len(permutations') : permutations'[n][1] = i
          /\ i' = permutations'[1][2]]_vars

\* In fast mode a line was accepted that starts where an earlier accepted
\* line ended, away from the initial screw.
C9_Witness ==
    /\ ~ slow_better_mode /\ Accepted /\ lines >= 2
    /\ LastLine[1] # INITIAL_SCREW /\ i = LastLine[2]

\* C10: the first element of a non-empty sorted list meets the threshold, so
\* the fallback scan stays at 0 (no panic, no index past the end).
C10_ScanStaysAtZero ==
    [][(pc = "loop" /\ window_open /\ window_open' /\ permutations' # << >>) =>
          /\ old_closeness - permutations'[1][3] >= DELTA_DIFF_THRESHOLD
          /\ x' = 0]_vars

\* A search step kept several candidates and skipped others.
C10_Witness ==
    /\ Accepted /\ ~ slow_better_mode
    /\ Len(permutations) >= 2
    /\ Len(permutations) < Len(CandidatePairs(FALSE, LastLine[1]))

====
